---------------------------- MODULE Spec2Model ----------------------------
(***************************************************************************)
(* ContainerPrinter: a compile-time classifier of "printable container"    *)
(* types (Traits::is_printable_as_container), a compile-time table of      *)
(* delimiters (Printer::delimiters) and the stream insertion operator      *)
(* built on them (operator<<, Printer::ContainerPrinter,                   *)
(* Printer::PrintingHelper).                                               *)
(*                                                                         *)
(* Types are values of the model: a type is a record                       *)
(*   [kind, cv, ns, args]                                                  *)
(* kind: the template or fundamental type, cv: const-qualified, ns: the    *)
(* namespace the class is a member of, args: the template arguments (for   *)
(* an array its element type, for a derived class its public base).        *)
(* Template instantiation is evaluation of the operators below.            *)
(***************************************************************************)
EXTENDS Integers, Sequences, FiniteSets

VARIABLES
  subject,       \* detection test: the type handed to the classifier
  isAContainer,  \* detection test: the classifier's answer, once evaluated
  lookup,        \* delimiter test: the (ContainerType, DelimiterType) looked up
  delims,        \* delimiter test: the delimiter_values found, once evaluated
  stream,        \* the output stream: its character type and its content
  container,     \* the caller's object handed to operator<<
  status,        \* outcome of the last statement of the caller
  before,        \* content of the stream before the last insertion
  previous       \* text the preceding insertion of this same object appended

vars == <<subject, isAContainer, lookup, delims, stream, container, status,
          before, previous>>

(***************************************************************************)
(* Bounds of the model.                                                    *)
(***************************************************************************)
MaxDepth == 2
MaxLen == 2
MaxStreamLen == 12

(***************************************************************************)
(* Types.                                                                  *)
(***************************************************************************)
T(kind, ns, args) == [kind |-> kind, cv |-> FALSE, ns |-> ns, args |-> args]

IntT == T("int", "none", <<>>)
CharT == T("char", "none", <<>>)
WCharT == T("wchar_t", "none", <<>>)
Char16T == T("char16_t", "none", <<>>)
Opaque == T("opaque", "global", <<>>)

Const(t) == [t EXCEPT !.cv = TRUE]

Vector(e) == T("vector", "std", <<e>>)
List(e) == T("list", "std", <<e>>)
Set(e) == T("set", "std", <<e>>)
Pair(a, b) == T("pair", "std", <<a, b>>)
Tuple(ts) == T("tuple", "std", ts)
Array(e) == T("array", "none", <<e>>)
UnboundedArray(e) == T("unbounded_array", "none", <<e>>)
BasicString(c, traits, alloc) == T("basic_string", "std", <<c, traits, alloc>>)
Derived(base, ns) == T("derived", ns, <<base>>)

CharTraits == T("char_traits", "std", <<>>)
CustomTraits == T("custom_traits", "global", <<>>)
Allocator == T("allocator", "std", <<>>)
CustomAllocator == T("custom_allocator", "global", <<>>)

String == BasicString(CharT, CharTraits, Allocator)
WString == BasicString(WCharT, CharTraits, Allocator)

\* std::remove_cv_t<std::remove_reference_t<Type>>
unqualified_t(t) == [t EXCEPT !.cv = FALSE]

IsClass(t) ==
  t.kind \in {"vector", "list", "set", "pair", "tuple", "basic_string",
              "derived", "opaque"}

RECURSIVE MemberNames(_)
\* The public members the classifier and the printing routine ask a type for.
\* A publicly derived class has the members of its base.
MemberNames(t) ==
  CASE t.kind \in {"vector", "list", "basic_string"} ->
         {"begin", "end", "value_type", "iterator", "back"}
    [] t.kind = "set" -> {"begin", "end", "value_type", "iterator"}
    [] t.kind = "pair" -> {"first", "second"}
    [] t.kind = "derived" -> MemberNames(t.args[1])
    [] OTHER -> {}

HasMemberInherited(t, m) == m \in MemberNames(t)

\* Faulty variant: members are looked up in the class itself, never in its base.
HasMemberOwn(t, m) == t.kind # "derived" /\ m \in MemberNames(t)

HasMember(t, m) == HasMemberInherited(t, m)

(***************************************************************************)
(* Traits::is_printable_as_container: a primary template (false) and six   *)
(* partial specializations.  The compiler uses the most specialized of the *)
(* specializations whose pattern the type matches, the primary template     *)
(* when none matches.  A pattern matches the exact type: a cv-qualified    *)
(* type or a class derived from the named template does not match it.      *)
(***************************************************************************)
AllSpecializations ==
  {"structural", "pair", "array", "char_array", "wchar_t_array", "basic_string"}

\* Faulty variant: the std::basic_string specialization is missing.
SpecializationsWithoutString == AllSpecializations \ {"basic_string"}

Specializations == AllSpecializations

\* void_t<decltype(begin()), decltype(end()), value_type, iterator> is well formed
void_t(t) ==
  /\ HasMember(t, "begin")
  /\ HasMember(t, "end")
  /\ HasMember(t, "value_type")
  /\ HasMember(t, "iterator")

Matches(s, t) ==
  CASE s = "structural" -> void_t(t)
    [] s = "pair" -> t.kind = "pair" /\ ~t.cv
    [] s = "array" -> t.kind = "array"
    [] s = "char_array" -> t.kind = "array" /\ t.args[1] = CharT
    [] s = "wchar_t_array" -> t.kind = "array" /\ t.args[1] = WCharT
    [] s = "basic_string" -> t.kind = "basic_string" /\ ~t.cv

\* The base class of each specialization: std::true_type or std::false_type.
SpecializationValue(s) == s \in {"structural", "pair", "array"}

\* Partial ordering of the specializations that can match one type.
MoreSpecialized(a, b) ==
  <<a, b>> \in {<<"char_array", "array">>, <<"wchar_t_array", "array">>,
                <<"basic_string", "structural">>}

Selected(t) ==
  {s \in Specializations :
     /\ Matches(s, t)
     /\ \A o \in Specializations \ {s} : Matches(o, t) => MoreSpecialized(s, o)}

is_printable_as_container(t) ==
  IF \A s \in Specializations : ~Matches(s, t)
  THEN FALSE
  ELSE SpecializationValue(CHOOSE s \in Selected(t) : TRUE)

is_printable_as_container_v(t) == is_printable_as_container(t)

(***************************************************************************)
(* The types of the detection test, by depth of nesting.                   *)
(***************************************************************************)
Scalars == {IntT, CharT, WCharT, Char16T}

Qualified(S) == S \cup {Const(t) : t \in {s \in S : s.kind # "array"}}

Strings ==
  {BasicString(c, tr, al) : c \in {CharT, WCharT, Char16T},
                            tr \in {CharTraits, CustomTraits},
                            al \in {Allocator, CustomAllocator}}

\* The types a standard container, pair or tuple can hold.
Objects(S) == {s \in S : s.kind \notin {"array", "unbounded_array"}}

Composed(S) ==
  {Vector(e) : e \in Objects(S)} \cup {List(e) : e \in Objects(S)}
  \cup {Set(e) : e \in Objects(S)}
  \cup {Array(e) : e \in Qualified(S)}
  \cup {UnboundedArray(e) : e \in Objects(S)}
  \cup {Pair(a, b) : a \in Objects(S), b \in {IntT, String}}
  \cup {Tuple(<<a, IntT>>) : a \in Objects(S)}
  \cup {Derived(b, ns) : b \in {s \in S : IsClass(s)}, ns \in {"global", "unnamed"}}

RECURSIVE TypesAt(_)
TypesAt(d) ==
  IF d = 0 THEN Scalars \cup {Opaque} \cup Strings
  ELSE TypesAt(d - 1) \cup Composed(TypesAt(d - 1))

Types == Qualified(TypesAt(MaxDepth))

(***************************************************************************)
(* Text: a sequence of characters, each of the stream's character type.    *)
(***************************************************************************)
Character(w, c) == [type |-> w.kind, c |-> c]

\* A string literal ("[" or L"[") as the characters it holds.
Literal(w, s) == [i \in 1..Len(s) |-> Character(w, s[i])]

(***************************************************************************)
(* Printer::delimiters<ContainerType, DelimiterType>::values.  The primary *)
(* template declares values and never defines it; the partial              *)
(* specializations cover DelimiterType char and wchar_t, which are the     *)
(* character types the lookup is evaluated for.                            *)
(***************************************************************************)
delimiter_values(w, prefix, delimiter, postfix) ==
  [prefix |-> Literal(w, prefix),
   delimiter |-> Literal(w, delimiter),
   postfix |-> Literal(w, postfix)]

delimitersSpecialized(ContainerType, DelimiterType) ==
  CASE ContainerType.kind = "set" /\ ~ContainerType.cv ->
         delimiter_values(DelimiterType, <<"{">>, <<",", " ">>, <<"}">>)
    [] ContainerType.kind = "pair" /\ ~ContainerType.cv ->
         delimiter_values(DelimiterType, <<"(">>, <<",", " ">>, <<")">>)
    [] ContainerType.kind = "tuple" /\ ~ContainerType.cv ->
         delimiter_values(DelimiterType, <<"<">>, <<",", " ">>, <<">">>)
    [] OTHER ->
         delimiter_values(DelimiterType, <<"[">>, <<",", " ">>, <<"]">>)

\* Faulty variant: the std::set specializations are missing.
delimitersWithoutSet(ContainerType, DelimiterType) ==
  IF ContainerType.kind = "set"
  THEN delimiter_values(DelimiterType, <<"[">>, <<",", " ">>, <<"]">>)
  ELSE delimitersSpecialized(ContainerType, DelimiterType)

delimiters(ContainerType, DelimiterType) ==
  delimitersSpecialized(ContainerType, DelimiterType)

CharacterTypes == {CharT, WCharT}

(***************************************************************************)
(* Values: a value is a record [type, int, items]; an int holds its number *)
(* in int, a container, pair or tuple holds its elements, in iteration     *)
(* order, in items.                                                        *)
(***************************************************************************)
IntV(n) == [type |-> IntT, int |-> n, items |-> <<>>]
Obj(t, items) == [type |-> t, int |-> 0, items |-> items]

\* The element type a container's iterators refer to.
RECURSIVE value_type(_)
value_type(t) ==
  IF t.kind = "derived" THEN value_type(t.args[1]) ELSE t.args[1]

\* std::end(container) - 1 needs a random access iterator.
RECURSIVE RandomAccess(_)
RandomAccess(t) ==
  CASE t.kind \in {"vector", "basic_string", "array"} -> TRUE
    [] t.kind = "derived" -> RandomAccess(t.args[1])
    [] OTHER -> FALSE

\* std::begin(container) and std::end(container)
Iterable(t) == t.kind = "array" \/ (HasMember(t, "begin") /\ HasMember(t, "end"))

(***************************************************************************)
(* Name lookup of operator<< in "stream << value".  The caller writes it   *)
(* at global scope after including the header, where the container         *)
(* operator is declared.  Inside namespace Printer the expression is       *)
(* written before the container operator is declared (it is declared last  *)
(* in the header), so there only argument-dependent lookup at the point of *)
(* instantiation can find it: when the global namespace is an associated   *)
(* namespace of the value's type.                                          *)
(***************************************************************************)
RECURSIVE BaseNamespaces(_)
BaseNamespaces(b) ==
  {b.ns} \cup (IF b.kind = "derived" THEN BaseNamespaces(b.args[1]) ELSE {})

RECURSIVE AssociatedNamespaces(_)
AssociatedNamespaces(t) ==
  CASE t.kind = "derived" -> {t.ns} \cup BaseNamespaces(t.args[1])
    [] t.kind \in {"array", "unbounded_array"} -> AssociatedNamespaces(t.args[1])
    [] IsClass(t) ->
         {t.ns} \cup UNION {AssociatedNamespaces(t.args[i]) : i \in 1..Len(t.args)}
    [] OTHER -> {}

OperatorVisible(context, t) ==
  context = "caller" \/ "global" \in AssociatedNamespaces(t)

\* The standard library's own inserters, for the values of the model:
\* an arithmetic value into any stream, a string into a stream of its
\* character type.
StdInserter(w, t) ==
  \/ t.kind = "int"
  \/ t.kind = "basic_string" /\ t.args[1] = w /\ t.args[2] = CharTraits

\* The overload "stream << value" resolves to: the standard library's, the
\* container operator (found by lookup and enabled by the classifier for
\* the deduced ContainerType), or none.
Insertion(context, w, t) ==
  IF StdInserter(w, t) THEN "std"
  ELSE IF OperatorVisible(context, t) /\ is_printable_as_container_v(unqualified_t(t))
       THEN "container"
       ELSE "none"

\* Whether the body of the container operator compiles for ContainerType t
\* and a stream of character type w.
RECURSIVE Instantiates(_, _)
ElementInsertable(w, e) ==
  LET r == Insertion("Printer", w, e)
  IN  r = "std" \/ (r = "container" /\ Instantiates(w, unqualified_t(e)))

Instantiates(w, t) ==
  IF t.kind = "pair"
  THEN ElementInsertable(w, t.args[1]) /\ ElementInsertable(w, t.args[2])
  ELSE /\ Iterable(t)
       /\ RandomAccess(t)
       /\ HasMember(t, "back")
       /\ ElementInsertable(w, value_type(t))

(***************************************************************************)
(* Writing to the stream.  A stream is [type, content]; every operator     *)
(* below takes the content before the write and yields the content after.  *)
(***************************************************************************)
DigitCharacters == <<"0", "1", "2", "3", "4", "5", "6", "7", "8", "9">>

RECURSIVE Digits(_)
Digits(n) ==
  IF n < 10 THEN <<DigitCharacters[n + 1]>>
  ELSE Digits(n \div 10) \o <<DigitCharacters[(n % 10) + 1]>>

\* basic_ostream::operator<<(int): the decimal digits, a minus sign first.
IntText(w, n) ==
  Literal(w, IF n < 0 THEN <<"-">> \o Digits(0 - n) ELSE Digits(n))

\* stream << text: the characters are added at the end.
WriteAppending(content, text) == content \o text

\* Faulty variant: the write starts at the beginning of the stream.
WriteOverwriting(content, text) == text

Write(content, text) == WriteAppending(content, text)

RECURSIVE InsertValue(_, _, _)
RECURSIVE ForEach(_, _, _, _, _, _)

\* std::for_each over items[first..last] with the lambda of the generic
\* PrintingHelper: stream << value << delimiters.delimiter
ForEach(content, w, t, items, first, last) ==
  IF first > last THEN content
  ELSE ForEach(
         Write(InsertValue(content, w, items[first]), delimiters(t, w).delimiter),
         w, t, items, first + 1, last)

\* Faulty variant: a function-local flag remembers that the preceding statement
\* printed, and the next call leaves the prefix out.
PrintingHelperGenericStateful(content, w, c) ==
  IF Len(c.items) = 0
  THEN content
  ELSE LET n == Len(c.items)
           opened == IF status = "ok" THEN content
                     ELSE Write(content, delimiters(c.type, w).prefix)
           looped == ForEach(opened, w, c.type, c.items, 1, n - 1)
       IN  Write(InsertValue(looped, w, c.items[n]), delimiters(c.type, w).postfix)

\* PrintingHelper, the generic overload.
PrintingHelperGeneric(content, w, c) ==
  IF Len(c.items) = 0
  THEN content
  ELSE LET n == Len(c.items)
           opened == Write(content, delimiters(c.type, w).prefix)
           looped == ForEach(opened, w, c.type, c.items, 1, n - 1)
       IN  Write(InsertValue(looped, w, c.items[n]), delimiters(c.type, w).postfix)

\* PrintingHelper, the std::pair overload.
PrintingHelperPair(content, w, c) ==
  LET d == delimiters(unqualified_t(Const(c.type)), w)
      s1 == Write(content, d.prefix)
      s2 == InsertValue(s1, w, c.items[1])
      s3 == Write(s2, d.delimiter)
      s4 == InsertValue(s3, w, c.items[2])
  IN  Write(s4, d.postfix)

\* Overload resolution: the std::pair overload is the more specialized one.
PrintingHelper(content, w, c) ==
  IF c.type.kind = "pair"
  THEN PrintingHelperPair(content, w, c)
  ELSE PrintingHelperGeneric(content, w, c)

\* Printer::ContainerPrinter holds a reference to the container.
ContainerPrinter(c) == [m_container |-> c]

PrintTo(printer, content, w) == PrintingHelper(content, w, printer.m_container)

\* The container operator: ContainerPrinter(container).PrintTo(stream); return stream
ContainerInsert(content, w, c) == PrintTo(ContainerPrinter(c), content, w)

\* "stream << value" for a value of any insertable type.
InsertValue(content, w, v) ==
  IF v.type.kind = "int"
  THEN Write(content, IntText(w, v.int))
  ELSE ContainerInsert(content, w, v)

(***************************************************************************)
(* The values the caller prints.                                           *)
(***************************************************************************)
\* A class at global scope that derives publicly from std::vector<int>.
GlobalWrapper == Derived(Vector(IntT), "global")

\* The unit tests' VectorWrapper<int>, in an unnamed namespace.
VectorWrapper == Derived(Vector(IntT), "unnamed")

IntValues == {IntV(1), IntV(20)}

SeqsOver(E) == UNION {[1..n -> E] : n \in 0..MaxLen}

PairsOver(E) == [1..2 -> E]

\* A std::set iterates in ascending order over distinct keys.
Ascending(s) == \A i \in 1..Len(s) : \A j \in 1..Len(s) : i < j => s[i].int < s[j].int

InnerVectors == {Obj(Vector(IntT), s) : s \in {<<>>, <<IntV(1)>>}}
InnerWrappers == {Obj(GlobalWrapper, s) : s \in {<<>>, <<IntV(1)>>}}
InnerPairs == {Obj(Pair(IntT, IntT), <<IntV(1), IntV(20)>>)}

\* The values of the unit tests and of the documented scenarios.
Scenarios ==
  {Obj(Vector(IntT), <<IntV(1), IntV(2), IntV(3), IntV(4)>>),
   Obj(Pair(IntT, IntT), <<IntV(10), IntV(100)>>),
   Obj(Set(IntT), <<IntV(1), IntV(2), IntV(3)>>),
   Obj(Tuple(<<IntT, IntT>>), <<IntV(1), IntV(2)>>),
   Obj(Vector(Vector(IntT)),
       <<Obj(Vector(IntT), <<IntV(1), IntV(2)>>), Obj(Vector(IntT), <<IntV(3)>>)>>)}

Values ==
  {Obj(Vector(IntT), s) : s \in SeqsOver(IntValues)}
  \cup {Obj(t, s) : t \in {List(IntT), GlobalWrapper, VectorWrapper},
                    s \in SeqsOver({IntV(1)})}
  \cup {Obj(Set(IntT), s) : s \in {q \in SeqsOver(IntValues) : Ascending(q)}}
  \cup {Obj(Array(IntT), s) : s \in {q \in SeqsOver({IntV(20)}) : Len(q) > 0}}
  \cup {Obj(t, s) : t \in {Pair(IntT, IntT), Tuple(<<IntT, IntT>>)},
                    s \in PairsOver(IntValues)}
  \cup {Obj(Vector(Vector(IntT)), s) : s \in SeqsOver({Obj(Vector(IntT), <<>>)})}
  \cup {Obj(Vector(GlobalWrapper), s) : s \in SeqsOver(InnerWrappers)}
  \cup {Obj(Vector(Pair(IntT, IntT)), s) : s \in SeqsOver(InnerPairs)}
  \cup {Obj(Pair(Vector(IntT), Vector(IntT)), s) : s \in PairsOver(InnerVectors)}
  \cup {Obj(Pair(GlobalWrapper, GlobalWrapper), s) : s \in PairsOver(InnerWrappers)}
  \cup Scenarios

(***************************************************************************)
(* The three programs: the detection test, the delimiter test and a caller *)
(* that prints containers to one stream.                                   *)
(***************************************************************************)
NotEvaluated == [evaluated |-> FALSE, value |-> FALSE]
NoDelimiters == [evaluated |-> FALSE, values |-> delimiter_values(CharT, <<>>, <<>>, <<>>)]
NoPrevious == [set |-> FALSE, text |-> <<>>]

DetectionIdle == subject = IntT /\ isAContainer = NotEvaluated
DelimitersIdle == lookup = <<IntT, CharT>> /\ delims = NoDelimiters
PrintingIdle ==
  /\ stream = [type |-> CharT, content |-> <<>>]
  /\ container = Obj(Vector(IntT), <<>>)
  /\ status = "constructed"
  /\ before = <<>>
  /\ previous = NoPrevious

InitDetection ==
  /\ subject \in Types
  /\ isAContainer = NotEvaluated
  /\ DelimitersIdle
  /\ PrintingIdle

\* constexpr auto isAContainer = Traits::is_printable_as_container_v<subject>
Classify ==
  /\ ~isAContainer.evaluated
  /\ isAContainer' = [evaluated |-> TRUE, value |-> is_printable_as_container_v(subject)]
  /\ UNCHANGED <<subject, lookup, delims, stream, container, status, before, previous>>

SpecDetection == InitDetection /\ [][Classify]_vars

InitDelimiters ==
  /\ lookup \in Types \X CharacterTypes
  /\ delims = NoDelimiters
  /\ DetectionIdle
  /\ PrintingIdle

\* constexpr auto delimiters = Printer::delimiters<ContainerType, DelimiterType>::values
LookUp ==
  /\ ~delims.evaluated
  /\ delims' = [evaluated |-> TRUE, values |-> delimiters(lookup[1], lookup[2])]
  /\ UNCHANGED <<subject, isAContainer, lookup, stream, container, status, before, previous>>

SpecDelimiters == InitDelimiters /\ [][LookUp]_vars

Init ==
  /\ stream \in {[type |-> w, content |-> <<>>] : w \in CharacterTypes}
  /\ container \in Values
  /\ status = "constructed"
  /\ before = <<>>
  /\ previous = NoPrevious
  /\ DetectionIdle
  /\ DelimitersIdle

\* The caller constructs (or assigns) the container it prints next.
Construct ==
  /\ status = "ok"
  /\ \E v \in Values : container' = v
  /\ status' = "constructed"
  /\ before' = stream.content
  /\ previous' = NoPrevious
  /\ UNCHANGED <<stream, subject, isAContainer, lookup, delims>>

\* The text the last insertion added after the content it found.
Appended(content, found) == SubSeq(content, Len(found) + 1, Len(content))

\* The caller's statement: stream << container
Insert ==
  LET w == stream.type
      ContainerType == unqualified_t(container.type)
      wellFormed == /\ Insertion("caller", w, container.type) = "container"
                    /\ Instantiates(w, ContainerType)
      after == ContainerInsert(stream.content, w, container)
  IN  /\ status # "ill_formed"
      /\ IF wellFormed
         THEN /\ Len(after) <= MaxStreamLen
              /\ stream' = [stream EXCEPT !.content = after]
              /\ status' = "ok"
              /\ before' = stream.content
              /\ previous' = IF status = "ok"
                             THEN [set |-> TRUE, text |-> Appended(stream.content, before)]
                             ELSE NoPrevious
         ELSE /\ status' = "ill_formed"
              /\ before' = stream.content
              /\ previous' = NoPrevious
              /\ UNCHANGED stream
      /\ UNCHANGED <<container, subject, isAContainer, lookup, delims>>

Next == Construct \/ Insert

Spec == Init /\ [][Next]_vars

(***************************************************************************)
(* The documented behaviour, stated on its own terms.                      *)
(***************************************************************************)
\* The type exposes begin, end, an element type and an iterator type.
Exposes(t) == {"begin", "end", "value_type", "iterator"} \subseteq MemberNames(t)

\* The shape a delimiter set is selected for: the template the container
\* type instantiates.  A const-qualified type, a class derived from the
\* template and every other type is of no specialized shape.
Shape(t) ==
  CASE t.cv -> "other"
    [] t.kind = "set" -> "ordered_unique_set"
    [] t.kind = "pair" -> "pair"
    [] t.kind = "tuple" -> "tuple"
    [] OTHER -> "other"

\* The documented delimiter table, keyed by shape.
ShapeBrackets(shape) ==
  CASE shape = "ordered_unique_set" -> <<"{", "}">>
    [] shape = "pair" -> <<"(", ")">>
    [] shape = "tuple" -> <<"<", ">">>
    [] shape = "other" -> <<"[", "]">>

Prefix(t, w) == <<Character(w, ShapeBrackets(Shape(t))[1])>>
Separator(w) == <<Character(w, ","), Character(w, " ")>>
Postfix(t, w) == <<Character(w, ShapeBrackets(Shape(t))[2])>>

RECURSIVE Join(_, _)
\* e1 + separator + e2 + ... + separator + en
Join(texts, sep) ==
  IF Len(texts) = 0 THEN <<>>
  ELSE IF Len(texts) = 1 THEN texts[1]
  ELSE texts[1] \o sep \o Join(Tail(texts), sep)

RECURSIVE DocumentedText(_, _)
\* The text the documentation gives a value: a number in decimal, a
\* sequence with no elements as nothing, every other container as
\* prefix + joined element texts + postfix.
DocumentedText(w, v) ==
  IF v.type.kind = "int" THEN IntText(w, v.int)
  ELSE IF v.type.kind \notin {"pair", "tuple"} /\ Len(v.items) = 0 THEN <<>>
  ELSE Prefix(v.type, w)
       \o Join([i \in 1..Len(v.items) |-> DocumentedText(w, v.items[i])], Separator(w))
       \o Postfix(v.type, w)

\* The caller's last statement was an insertion of container.
Attempted == status \in {"ok", "ill_formed"}

\* The insertion compiled, ran, and added exactly the documented text.
PrintedAsDocumented ==
  /\ status = "ok"
  /\ stream.content = before \o DocumentedText(stream.type, container)

\* Sequence shaped: accepted through begin, end, element and iterator type.
SequenceShaped(t) == is_printable_as_container_v(t) /\ Exposes(t)

Narrow(s) == Literal(CharT, s)

(* C1: after the insertion of a sequence-shaped container with n >= 1
   elements, into a narrow or a wide stream, the stream holds its previous
   content followed by prefix + e1 + separator + ... + en + postfix, each
   element's text produced by the same rule.  Violated: the routine does not
   compile for a std::list, nor for a std::vector of std::vector. *)
C1_SequenceIsJoined ==
  (Attempted /\ SequenceShaped(container.type) /\ Len(container.items) >= 1)
    => PrintedAsDocumented

(* C3: every value of a type the classifier accepts can be inserted and is
   printed with its shape's delimiters; the set {1, 2, 3} prints as
   {1, 2, 3}.  Violated: the routine does not compile for a std::set, a
   std::list or a built-in array. *)
C3_AcceptedTypesPrint ==
  (Attempted /\ is_printable_as_container_v(container.type))
    => /\ PrintedAsDocumented
       /\ (container = Obj(Set(IntT), <<IntV(1), IntV(2), IntV(3)>>) /\ stream.type = CharT)
            => stream.content =
                 before \o Narrow(<<"{", "1", ",", " ", "2", ",", " ", "3", "}">>)

(* C4: the insertion of a tuple is available and renders it in angle
   brackets; the tuple (1, 2) prints to a narrow stream as <1, 2>.
   Violated: the classifier rejects every tuple, so no operator exists. *)
C4_TuplePrints ==
  (Attempted /\ container.type.kind = "tuple")
    => /\ PrintedAsDocumented
       /\ (container = Obj(Tuple(<<IntT, IntT>>), <<IntV(1), IntV(2)>>) /\ stream.type = CharT)
            => stream.content = before \o Narrow(<<"<", "1", ",", " ", "2", ">">>)

(* C5: the insertion of a pair always adds "(", the first element's text,
   ", ", the second element's text and ")", also when an element is a
   container that prints as nothing: a pair of two empty sequences prints as
   "(, )".  Violated: the routine does not compile for a pair of
   std::vector. *)
C5_PairIsUnconditional ==
  (Attempted /\ container.type.kind = "pair")
    => /\ status = "ok"
       /\ stream.content =
            before \o <<Character(stream.type, "(")>>
                   \o DocumentedText(stream.type, container.items[1])
                   \o Separator(stream.type)
                   \o DocumentedText(stream.type, container.items[2])
                   \o <<Character(stream.type, ")")>>

\* One of the container's elements is a sequence with no elements.
HasEmptySequenceElement(c) ==
  \E i \in 1..Len(c.items) :
     /\ SequenceShaped(c.items[i].type)
     /\ Len(c.items[i].items) = 0

(* C6: the insertion of a sequence-shaped container with no elements leaves
   the stream as it was, and an empty sequence that is an element of a
   non-empty sequence contributes no text between its neighbours'
   separators.  Violated: a std::vector whose element is an empty
   std::vector does not compile. *)
C6_EmptyWritesNothing ==
  (Attempted /\ SequenceShaped(container.type))
    => /\ Len(container.items) = 0 => stream.content = before
       /\ HasEmptySequenceElement(container) => PrintedAsDocumented

\* A narrow or wide fixed-size character array, its characters const or not.
CharacterArray(t) == t.kind = "array" /\ t.args[1].kind \in {"char", "wchar_t"}

\* An instantiation of the string type, of the pair type.
StringInstantiation(t) == t.kind = "basic_string" /\ ~t.cv
PairInstantiation(t) == t.kind = "pair" /\ ~t.cv

ClaimedClassification(t) ==
  IF CharacterArray(t) \/ StringInstantiation(t)
  THEN FALSE
  ELSE Exposes(t) \/ PairInstantiation(t) \/ t.kind = "array"

(* C2, as claimed: the classifier is false for every narrow or wide
   fixed-size character array and every instantiation of the string type;
   true for every other type that exposes begin, end, an element type and an
   iterator type, for every pair and for every other fixed-size array; false
   for everything else.  Violated by the character arrays whose characters
   are const: const char[N] is classified true. *)
C2_ExclusionsFirst ==
  isAContainer.evaluated => isAContainer.value = ClaimedClassification(subject)

AmendedClassification(t) ==
  IF (t.kind = "array" /\ t.args[1] \in {CharT, WCharT}) \/ StringInstantiation(t)
  THEN FALSE
  ELSE Exposes(t) \/ PairInstantiation(t) \/ t.kind = "array"

(* C2, amended: the character array exclusions name char[N] and wchar_t[N]
   exactly.  The classifier is false for every fixed-size array of char or
   of wchar_t and for every instantiation of the string type; true for
   every other type that exposes begin, end, an element type and an
   iterator type, for every pair, and for every other fixed-size array, the
   arrays of const char and of const wchar_t among them; false for
   everything else. *)
C2_ExactTypeExclusions ==
  isAContainer.evaluated => isAContainer.value = AmendedClassification(subject)

\* A string exposes begin, end, value_type and iterator and is rejected.
C2_StringRejected ==
  /\ isAContainer.evaluated
  /\ subject = String
  /\ Exposes(subject)
  /\ ~isAContainer.value

(* C7: the lookup resolves every (shape, character width) to one triple:
   ordered-unique-set to { , }, pair to ( , ), tuple to < , >, every other
   shape to [ , ], each in the character width asked for. *)
C7_DelimiterTable ==
  delims.evaluated =>
    delims.values = [prefix |-> Prefix(lookup[1], lookup[2]),
                     delimiter |-> Separator(lookup[2]),
                     postfix |-> Postfix(lookup[1], lookup[2])]

\* The wide delimiters of a std::set have been looked up.
C7_WideSetLookedUp ==
  /\ delims.evaluated
  /\ lookup = <<Set(IntT), WCharT>>
  /\ delims.values.prefix = <<Character(WCharT, "{")>>

(* C8, as claimed: every type publicly derived from a type the classifier
   accepts is itself classified as a printable container.  Violated by a
   class derived from std::pair. *)
C8_DerivedFromAccepted ==
  (/\ isAContainer.evaluated
   /\ subject.kind = "derived"
   /\ is_printable_as_container_v(subject.args[1]))
    => isAContainer.value

(* C8, amended: every type publicly derived from a type that exposes begin,
   end, an element type and an iterator type is classified as a printable
   container, because that check is structural; a type derived from a
   std::pair is not, because std::pair is accepted by its identity. *)
C8_DerivedFromStructural ==
  (isAContainer.evaluated /\ subject.kind = "derived")
    => /\ Exposes(subject.args[1]) => isAContainer.value
       /\ subject.args[1].kind = "pair" => ~isAContainer.value

\* The unit tests' VectorWrapper<int> has been classified, as true.
C8_VectorWrapperAccepted ==
  /\ isAContainer.evaluated
  /\ subject = VectorWrapper
  /\ isAContainer.value

(* C9: an insertion that runs leaves the stream with its previous content
   followed by the text of the value, on the same stream, and leaves the
   container as it was; so insertions one after the other add their texts
   in order. *)
C9_AppendsOnly ==
  [][status' = "ok" =>
       /\ stream'.type = stream.type
       /\ stream'.content = stream.content \o DocumentedText(stream.type, container)
       /\ container' = container]_vars

\* A second insertion has added its text after the text of an earlier one.
C9_Chained ==
  /\ status = "ok"
  /\ before # <<>>
  /\ Len(stream.content) > Len(before)

============================================================================
